---- MODULE Spec2Model ----
(***************************************************************************)
(* Model of the VS Code custom agent (.agent.md) validator:                *)
(* src/test/test.ts lines 267-1159 (the validator) and src/src/types.ts.   *)
(*                                                                         *)
(* Text is a sequence of chunks (one-character strings such as "-", "\n",  *)
(* " ", or an opaque run of text such as "http://"); a JavaScript value is *)
(* a record [t, s, e]: its type tag, its text (strings, numbers, booleans) *)
(* and its elements (arrays) or entries (objects).                         *)
(***************************************************************************)
EXTENDS Integers, Sequences, FiniteSets

VARIABLES pc, env, inputs, files, fileResults, allErrors, allWarnings, outputs

vars == <<pc, env, inputs, files, fileResults, allErrors, allWarnings, outputs>>

(***************************************************************************)
(* JavaScript values                                                       *)
(***************************************************************************)
V(t, s, e) == [t |-> t, s |-> s, e |-> e]

Undefined == V("undef", <<>>, <<>>)

Null == V("null", <<>>, <<>>)

Num(s) == V("num", s, <<>>)

Bool(b) == V("bool", <<IF b THEN "true" ELSE "false">>, <<>>)

Str(s) == V("str", s, <<>>)

Arr(e) == V("arr", <<>>, e)

Obj(e) == V("obj", <<>>, e)

Ent(k, v) == [k |-> k, v |-> v]

Rep(c, n) == [i \in 1..n |-> c]

typeof(v) ==
  CASE v.t = "undef" -> "undefined"
    [] v.t = "num" -> "number"
    [] v.t = "bool" -> "boolean"
    [] v.t = "str" -> "string"
    [] OTHER -> "object"

isArray(v) == v.t = "arr"

\* JavaScript truthiness, as used by `!h.label` and `if (detail)`.
Truthy(v) ==
  CASE v.t \in {"undef", "null"} -> FALSE
    [] v.t = "str" -> v.s # <<>>
    [] v.t = "num" -> v.s # <<"0">>
    [] v.t = "bool" -> v.s = <<"true">>
    [] OTHER -> TRUE

\* Property read o[key]: an own entry of an object, undefined otherwise
\* (an array has index keys only, so a field name reads undefined).
Get(o, key) ==
  IF o.t = "obj" /\ \E i \in 1..Len(o.e) : o.e[i].k = key
  THEN o.e[CHOOSE i \in 1..Len(o.e) : o.e[i].k = key].v
  ELSE Undefined

Whitespace == {" ", "\t", "\n", "\r"}

\* String.prototype.trim: the text from its first to its last character
\* that is not white space.
TrimStart(s) ==
  IF \A i \in 1..Len(s) : s[i] \in Whitespace THEN <<>>
  ELSE SubSeq(s,
              CHOOSE i \in 1..Len(s) :
                s[i] \notin Whitespace /\ \A j \in 1..(i - 1) : s[j] \in Whitespace,
              Len(s))

TrimEnd(s) ==
  IF \A i \in 1..Len(s) : s[i] \in Whitespace THEN <<>>
  ELSE SubSeq(s, 1,
              CHOOSE i \in 1..Len(s) :
                /\ s[i] \notin Whitespace
                /\ \A j \in (i + 1)..Len(s) : s[j] \in Whitespace)

trim(s) == TrimEnd(TrimStart(s))

Digits == <<"0", "1", "2", "3", "4", "5", "6", "7", "8", "9">>

\* String(n) for a non-negative integer: its decimal digits.
RECURSIVE ToString(_)
ToString(n) ==
  IF n < 10 THEN <<Digits[n + 1]>>
  ELSE ToString(n \div 10) \o <<Digits[(n % 10) + 1]>>

\* String(v) for the values validateTarget can pass.
StringOf(v) ==
  CASE v.t \in {"str", "num", "bool"} -> v.s
    [] v.t = "arr" -> <<"<array>">>
    [] OTHER -> <<"[object Object]">>

\* Object.keys: the entry names of an object, the index strings of an array.
ObjectKeys(o) ==
  CASE o.t = "obj" -> [i \in 1..Len(o.e) |-> <<o.e[i].k>>]
    [] o.t = "arr" -> [i \in 1..Len(o.e) |-> ToString(i - 1)]
    [] OTHER -> <<>>

StartsAt(s, i, pat) ==
  /\ i + Len(pat) - 1 <= Len(s)
  /\ \A j \in 1..Len(pat) : s[i + j - 1] = pat[j]

startsWith(s, pat) == StartsAt(s, 1, pat)

(***************************************************************************)
(* Constants and the rule table                                            *)
(***************************************************************************)
DESCRIPTION_MIN_QUALITY == 50

BODY_MAX_LINES == 1000

MAX_FILE_SIZE_KB == 512

KNOWN_FIELDS ==
  {"description", "name", "argument-hint", "tools", "agents", "model",
   "user-invokable", "disable-model-invocation", "infer", "target",
   "mcp-servers", "handoffs"}

VALID_TARGETS == {<<"vscode">>, <<"github-copilot">>}

RuleId ==
  {"frontmatter-required", "frontmatter-valid", "file-extension",
   "description-format", "description-quality", "name-format",
   "argument-hint-format", "tools-format", "agents-format", "model-format",
   "user-invokable-format", "disable-model-invocation-format",
   "infer-deprecated", "target-valid", "mcp-servers-format",
   "handoffs-format", "handoff-label-required", "handoff-agent-required",
   "handoff-send-format", "handoff-model-format", "unknown-field",
   "body-empty", "body-too-long", "reference-not-found"}

\* rules.json is not among the sources: the severities are those the policy
\* table of the specification gives.
WarningRules ==
  {"description-quality", "infer-deprecated", "unknown-field", "body-empty"}

\* Rules whose severity the specification leaves to the table.
OpenRules ==
  {"file-extension", "handoff-label-required", "handoff-agent-required",
   "handoff-send-format", "handoff-model-format", "body-too-long",
   "reference-not-found"}

RuleTable(open) ==
  [r \in RuleId |->
     [severity |-> IF r \in WarningRules THEN "warning"
                   ELSE IF r \in OpenRules THEN open
                   ELSE "error"]]

RuleTables == {RuleTable(open) : open \in {"error", "warning"}}

rules == env.rules

NoRule == "null"

(***************************************************************************)
(* Issue collector                                                         *)
(***************************************************************************)
\* The message is the rule's template with the detail substituted when the
\* detail is truthy; it is kept as the pair (ruleId, detail).
createIssue(ruleId, detail, file) ==
  [ruleId |-> ruleId,
   detail |-> detail,
   severity |-> rules[ruleId].severity,
   file |-> file]

includes(ignoreRules, ruleId) ==
  \E i \in 1..Len(ignoreRules) : ignoreRules[i] = <<ruleId>>

\* Variant: a pass starts from the lists the run has gathered so far.
NoIssuesKept == [errors |-> allErrors, warnings |-> allWarnings]

NoIssues == [errors |-> <<>>, warnings |-> <<>>]

\* Variant: every issue is pushed to errors, whatever its severity.
addIssueToErrors(ruleId, detail, acc, ignoreRules, file) ==
  IF includes(ignoreRules, ruleId) THEN acc
  ELSE [acc EXCEPT !.errors = Append(@, createIssue(ruleId, detail, file))]

\* Variant: only the first entry of the ignore list is honoured.
addIssueFirstIgnored(ruleId, detail, acc, ignoreRules, file) ==
  IF includes(SubSeq(ignoreRules, 1, IF Len(ignoreRules) > 0 THEN 1 ELSE 0),
              ruleId)
  THEN acc
  ELSE LET issue == createIssue(ruleId, detail, file)
       IN IF issue.severity = "error"
          THEN [acc EXCEPT !.errors = Append(@, issue)]
          ELSE [acc EXCEPT !.warnings = Append(@, issue)]

addIssue(ruleId, detail, acc, ignoreRules, file) ==
  IF includes(ignoreRules, ruleId) THEN acc
  ELSE LET issue == createIssue(ruleId, detail, file)
       IN IF issue.severity = "error"
          THEN [acc EXCEPT !.errors = Append(@, issue)]
          ELSE [acc EXCEPT !.warnings = Append(@, issue)]

(***************************************************************************)
(* Field validators: each takes the issue lists gathered so far and        *)
(* returns them with its own issues appended.                              *)
(***************************************************************************)
\* Variant: no check for a whitespace-only string.
validateDescriptionUntrimmed(description, acc, ignoreRules, file) ==
  IF description.t \in {"undef", "null"}
  THEN addIssue("description-format", <<>>, acc, ignoreRules, file)
  ELSE IF typeof(description) # "string"
  THEN addIssue("description-format", <<"must be a string">>, acc,
                ignoreRules, file)
  ELSE IF Len(description.s) = 0
  THEN addIssue("description-format", <<>>, acc, ignoreRules, file)
  ELSE IF Len(description.s) < DESCRIPTION_MIN_QUALITY
  THEN addIssue("description-quality", ToString(Len(description.s)), acc,
                ignoreRules, file)
  ELSE acc

validateDescription(description, acc, ignoreRules, file) ==
  IF description.t \in {"undef", "null"}
  THEN addIssue("description-format", <<>>, acc, ignoreRules, file)
  ELSE IF typeof(description) # "string"
  THEN addIssue("description-format", <<"must be a string">>, acc,
                ignoreRules, file)
  ELSE IF Len(trim(description.s)) = 0
  THEN addIssue("description-format", <<>>, acc, ignoreRules, file)
  ELSE IF Len(description.s) < DESCRIPTION_MIN_QUALITY
  THEN addIssue("description-quality", ToString(Len(description.s)), acc,
                ignoreRules, file)
  ELSE acc

validateName(name, acc, ignoreRules, file) ==
  IF name.t \in {"undef", "null"} THEN acc
  ELSE IF typeof(name) # "string"
  THEN addIssue("name-format", <<>>, acc, ignoreRules, file)
  ELSE acc

validateArgumentHint(hint, acc, ignoreRules, file) ==
  IF hint.t \in {"undef", "null"} THEN acc
  ELSE IF typeof(hint) # "string"
  THEN addIssue("argument-hint-format", <<>>, acc, ignoreRules, file)
  ELSE acc

ItemNotString(i) == <<"Item at index ">> \o ToString(i) \o <<" is not a string">>

\* for (let i = ...; i < items.length; i++) if (typeof items[i] !== "string")
\* addIssue(ruleId, `Item at index ${i} is not a string`); i is the
\* zero-based index of the element examined next.
RECURSIVE StringItems(_, _, _, _, _, _)
StringItems(ruleId, items, i, acc, ignoreRules, file) ==
  IF i >= Len(items) THEN acc
  ELSE StringItems(ruleId, items, i + 1,
         IF typeof(items[i + 1]) # "string"
         THEN addIssue(ruleId, ItemNotString(i), acc, ignoreRules, file)
         ELSE acc,
         ignoreRules, file)

\* Variant: the loop over the items stops at the first offending one.
RECURSIVE StringItemsFirst(_, _, _, _, _, _)
StringItemsFirst(ruleId, items, i, acc, ignoreRules, file) ==
  IF i >= Len(items) THEN acc
  ELSE IF typeof(items[i + 1]) # "string"
  THEN addIssue(ruleId, ItemNotString(i), acc, ignoreRules, file)
  ELSE StringItemsFirst(ruleId, items, i + 1, acc, ignoreRules, file)

validateToolsFirstOnly(tools, acc, ignoreRules, file) ==
  IF tools.t \in {"undef", "null"} THEN acc
  ELSE IF ~isArray(tools)
  THEN addIssue("tools-format", <<"Expected an array">>, acc, ignoreRules, file)
  ELSE StringItemsFirst("tools-format", tools.e, 0, acc, ignoreRules, file)

\* Variant: tools are not looked at once an error has been recorded.
validateToolsUnlessErrors(tools, acc, ignoreRules, file) ==
  IF Len(acc.errors) > 0 \/ tools.t \in {"undef", "null"} THEN acc
  ELSE IF ~isArray(tools)
  THEN addIssue("tools-format", <<"Expected an array">>, acc, ignoreRules, file)
  ELSE StringItems("tools-format", tools.e, 0, acc, ignoreRules, file)

validateTools(tools, acc, ignoreRules, file) ==
  IF tools.t \in {"undef", "null"} THEN acc
  ELSE IF ~isArray(tools)
  THEN addIssue("tools-format", <<"Expected an array">>, acc, ignoreRules, file)
  ELSE StringItems("tools-format", tools.e, 0, acc, ignoreRules, file)

validateAgents(agents, acc, ignoreRules, file) ==
  IF agents.t \in {"undef", "null"} THEN acc
  ELSE IF agents = Str(<<"*">>) THEN acc
  ELSE IF ~isArray(agents)
  THEN addIssue("agents-format", <<"Expected an array or '*'">>, acc,
                ignoreRules, file)
  ELSE StringItems("agents-format", agents.e, 0, acc, ignoreRules, file)

\* Variant: a list of model names is not accepted.
validateModelStringOnly(model, acc, ignoreRules, file) ==
  IF model.t \in {"undef", "null"} THEN acc
  ELSE IF typeof(model) = "string" THEN acc
  ELSE addIssue("model-format", <<"Expected a string or array of strings">>,
                acc, ignoreRules, file)

validateModel(model, acc, ignoreRules, file) ==
  IF model.t \in {"undef", "null"} THEN acc
  ELSE IF typeof(model) = "string" THEN acc
  ELSE IF isArray(model)
  THEN StringItems("model-format", model.e, 0, acc, ignoreRules, file)
  ELSE addIssue("model-format", <<"Expected a string or array of strings">>,
                acc, ignoreRules, file)

validateBooleanField(value, ruleId, acc, ignoreRules, file) ==
  IF value.t \in {"undef", "null"} THEN acc
  ELSE IF typeof(value) # "boolean"
  THEN addIssue(ruleId, <<>>, acc, ignoreRules, file)
  ELSE acc

validateTarget(target, acc, ignoreRules, file) ==
  IF target.t \in {"undef", "null"} THEN acc
  ELSE IF typeof(target) # "string" \/ target.s \notin VALID_TARGETS
  THEN addIssue("target-valid", StringOf(target), acc, ignoreRules, file)
  ELSE acc

validateMcpServers(mcpServers, acc, ignoreRules, file) ==
  IF mcpServers.t \in {"undef", "null"} THEN acc
  ELSE IF ~isArray(mcpServers)
  THEN addIssue("mcp-servers-format", <<>>, acc, ignoreRules, file)
  ELSE acc

ItemNotObject(i) == <<"Item at index ">> \o ToString(i) \o <<" is not an object">>

HandoffLabel(h, index, acc, ignoreRules, file) ==
  IF ~Truthy(Get(h, "label")) \/ typeof(Get(h, "label")) # "string"
  THEN addIssue("handoff-label-required", ToString(index), acc, ignoreRules,
                file)
  ELSE acc

HandoffAgent(h, index, acc, ignoreRules, file) ==
  IF ~Truthy(Get(h, "agent")) \/ typeof(Get(h, "agent")) # "string"
  THEN addIssue("handoff-agent-required", ToString(index), acc, ignoreRules,
                file)
  ELSE acc

HandoffSend(h, index, acc, ignoreRules, file) ==
  IF Get(h, "send").t # "undef" /\ typeof(Get(h, "send")) # "boolean"
  THEN addIssue("handoff-send-format", ToString(index), acc, ignoreRules, file)
  ELSE acc

HandoffModel(h, index, acc, ignoreRules, file) ==
  IF Get(h, "model").t # "undef" /\ typeof(Get(h, "model")) # "string"
  THEN addIssue("handoff-model-format", ToString(index), acc, ignoreRules,
                file)
  ELSE acc

\* Variant: the agent is checked only when the label is in order.
validateHandoffElseIf(handoff, index, acc, ignoreRules, file) ==
  IF typeof(handoff) # "object" \/ handoff.t = "null"
  THEN addIssue("handoffs-format", ItemNotObject(index), acc, ignoreRules,
                file)
  ELSE HandoffModel(handoff, index,
         HandoffSend(handoff, index,
           IF ~Truthy(Get(handoff, "label"))
              \/ typeof(Get(handoff, "label")) # "string"
           THEN HandoffLabel(handoff, index, acc, ignoreRules, file)
           ELSE HandoffAgent(handoff, index, acc, ignoreRules, file),
           ignoreRules, file),
         ignoreRules, file)

\* The four checks run in source order: label, agent, send, model.
validateHandoff(handoff, index, acc, ignoreRules, file) ==
  IF typeof(handoff) # "object" \/ handoff.t = "null"
  THEN addIssue("handoffs-format", ItemNotObject(index), acc, ignoreRules,
                file)
  ELSE HandoffModel(handoff, index,
         HandoffSend(handoff, index,
           HandoffAgent(handoff, index,
             HandoffLabel(handoff, index, acc, ignoreRules, file),
             ignoreRules, file),
           ignoreRules, file),
         ignoreRules, file)

RECURSIVE HandoffItems(_, _, _, _, _)
HandoffItems(items, i, acc, ignoreRules, file) ==
  IF i >= Len(items) THEN acc
  ELSE HandoffItems(items, i + 1,
         validateHandoff(items[i + 1], i, acc, ignoreRules, file),
         ignoreRules, file)

validateHandoffs(handoffs, acc, ignoreRules, file) ==
  IF handoffs.t \in {"undef", "null"} THEN acc
  ELSE IF ~isArray(handoffs)
  THEN addIssue("handoffs-format", <<>>, acc, ignoreRules, file)
  ELSE HandoffItems(handoffs.e, 0, acc, ignoreRules, file)

validateInfer(infer, acc, ignoreRules, file) ==
  IF infer.t # "undef"
  THEN addIssue("infer-deprecated", <<>>, acc, ignoreRules, file)
  ELSE acc

RECURSIVE UnknownKeys(_, _, _, _, _)
UnknownKeys(keys, i, acc, ignoreRules, file) ==
  IF i > Len(keys) THEN acc
  ELSE UnknownKeys(keys, i + 1,
         IF ~(\E f \in KNOWN_FIELDS : keys[i] = <<f>>)
         THEN addIssue("unknown-field", keys[i], acc, ignoreRules, file)
         ELSE acc,
         ignoreRules, file)

\* Variant: only the first unknown key is reported.
validateUnknownFieldsOnce(data, acc, ignoreRules, file) ==
  LET unknown == SelectSeq(ObjectKeys(data),
                           LAMBDA key : \A f \in KNOWN_FIELDS : key # <<f>>)
  IN IF unknown = <<>> THEN acc
     ELSE addIssue("unknown-field", unknown[1], acc, ignoreRules, file)

validateUnknownFields(data, acc, ignoreRules, file) ==
  UnknownKeys(ObjectKeys(data), 1, acc, ignoreRules, file)

\* body.split("\n").length
SplitLines(body) == Cardinality({i \in 1..Len(body) : body[i] = "\n"}) + 1

\* Variant: a body of exactly the ceiling is too long.
validateBodyInclusive(body, acc, ignoreRules, file) ==
  IF body = <<>> \/ Len(trim(body)) = 0
  THEN addIssue("body-empty", <<>>, acc, ignoreRules, file)
  ELSE IF SplitLines(body) >= BODY_MAX_LINES
  THEN addIssue("body-too-long", ToString(SplitLines(body)), acc,
                ignoreRules, file)
  ELSE acc

validateBody(body, acc, ignoreRules, file) ==
  IF body = <<>> \/ Len(trim(body)) = 0
  THEN addIssue("body-empty", <<>>, acc, ignoreRules, file)
  ELSE IF SplitLines(body) > BODY_MAX_LINES
  THEN addIssue("body-too-long", ToString(SplitLines(body)), acc,
                ignoreRules, file)
  ELSE acc

\* Smallest index i >= from with s[i] = c, or 0.
IndexFrom(s, from, c) ==
  IF \E i \in from..Len(s) : s[i] = c
  THEN CHOOSE i \in from..Len(s) :
         s[i] = c /\ \A j \in from..(i - 1) : s[j] # c
  ELSE 0

LinkParen(j, k) == IF k > j + 2 THEN k ELSE 0

LinkClose(body, j) ==
  IF j # 0 /\ j + 1 <= Len(body) /\ body[j + 1] = "("
  THEN LinkParen(j, IndexFrom(body, j + 2, ")"))
  ELSE 0

\* /\[([^\]]*)\]\(([^)]+)\)/ anchored at i: the index of the closing ")" of
\* the match that starts at the "[" at i, or 0.
LinkEnd(body, i) ==
  IF body[i] = "[" THEN LinkClose(body, IndexFrom(body, i + 1, "]")) ELSE 0

\* linkRegex.exec(body) from index p: the start of the leftmost match, or 0.
LinkStart(body, p) ==
  IF \E i \in p..Len(body) : LinkEnd(body, i) # 0
  THEN CHOOSE i \in p..Len(body) :
         LinkEnd(body, i) # 0 /\ \A h \in p..(i - 1) : LinkEnd(body, h) = 0
  ELSE 0

CheckLink(linkPath, existing, acc, ignoreRules, file) ==
  IF \/ startsWith(linkPath, <<"http://">>)
     \/ startsWith(linkPath, <<"https://">>)
     \/ startsWith(linkPath, <<"#">>)
  THEN acc
  ELSE IF linkPath \notin existing
  THEN addIssue("reference-not-found", linkPath, acc, ignoreRules, file)
  ELSE acc

RECURSIVE Links(_, _, _, _, _, _)
\* One match "[...](...)" with "]" at j and ")" at k, then the next exec.
LinkFound(body, j, k, existing, acc, ignoreRules, file) ==
  Links(body, k + 1, existing,
        CheckLink(SubSeq(body, j + 2, k - 1), existing, acc, ignoreRules, file),
        ignoreRules, file)

LinksAt(body, i, existing, acc, ignoreRules, file) ==
  IF i = 0 THEN acc
  ELSE LinkFound(body, IndexFrom(body, i + 1, "]"), LinkEnd(body, i),
                 existing, acc, ignoreRules, file)

Links(body, p, existing, acc, ignoreRules, file) ==
  LinksAt(body, LinkStart(body, p), existing, acc, ignoreRules, file)

\* `existing`: the link targets that fs.existsSync finds when resolved
\* against the directory of the file.
validateFileReferences(body, existing, acc, ignoreRules, file) ==
  Links(body, 1, existing, acc, ignoreRules, file)

(***************************************************************************)
(* Frontmatter splitter and document parser                                *)
(***************************************************************************)
Delim == <<"-", "-", "-">>

\* \r?\n--- at k
CloseAt(content, k) ==
  \/ StartsAt(content, k, <<"\n">> \o Delim)
  \/ StartsAt(content, k, <<"\r", "\n">> \o Delim)

\* ^---\r?\n: the index after the opening delimiter line, or 0.
HeaderStart(content) ==
  IF StartsAt(content, 1, Delim \o <<"\r", "\n">>) THEN 6
  ELSE IF StartsAt(content, 1, Delim \o <<"\n">>) THEN 5
  ELSE 0

\* ([\s\S]*?) is lazy: the first index from start where \r?\n--- matches,
\* or 0.
CloseIndex(content, start) ==
  IF \E k \in start..Len(content) : CloseAt(content, k)
  THEN CHOOSE k \in start..Len(content) :
         CloseAt(content, k) /\ \A y \in start..(k - 1) : ~CloseAt(content, y)
  ELSE 0

SkipOne(content, a, c) ==
  IF a <= Len(content) /\ content[a] = c THEN a + 1 ELSE a

\* After \r?\n--- at k, \r?\n? takes one optional line break.
BodyStart(content, k) ==
  SkipOne(content,
          SkipOne(content, IF content[k] = "\n" THEN k + 4 ELSE k + 5, "\r"),
          "\n")

NoFrontmatter(content) ==
  [frontmatter |-> <<>>, absent |-> TRUE, body |-> content]

SplitClose(content, start, k) ==
  IF k = 0 THEN NoFrontmatter(content)
  ELSE [frontmatter |-> SubSeq(content, start, k - 1),
        absent |-> FALSE,
        body |-> SubSeq(content, BodyStart(content, k), Len(content))]

SplitFrom(content, start) ==
  IF start = 0 THEN NoFrontmatter(content)
  ELSE SplitClose(content, start, CloseIndex(content, start))

\* /^---\r?\n([\s\S]*?)\r?\n---\r?\n?([\s\S]*)$/
extractFrontmatter(content) == SplitFrom(content, HeaderStart(content))

isAgentFrontmatter(data) == typeof(data) = "object" /\ data.t # "null"

\* js-yaml's load is outside the repository: an empty or blank header
\* decodes to undefined, any other header to what the file's `yaml` field
\* says (a thrown syntax error or a decoded value).
load(frontmatter, yaml) ==
  IF Len(trim(frontmatter)) = 0
  THEN [throws |-> FALSE, message |-> "", value |-> Undefined]
  ELSE yaml

ParseFailure(message, ruleId) ==
  [success |-> FALSE, data |-> Undefined, body |-> <<>>,
   error |-> [message |-> message, ruleId |-> ruleId]]

ParseSuccess(data, body) ==
  [success |-> TRUE, data |-> data, body |-> body,
   error |-> [message |-> <<>>, ruleId |-> NoRule]]

\* Math.round(size / 1024)
RoundKB(size) == (2 * size + 1024) \div 2048

\* try { load; isAgentFrontmatter } catch
ParseLoaded(parsed, body) ==
  IF parsed.throws
  THEN ParseFailure(<<"Invalid YAML frontmatter: ", parsed.message>>,
                    "frontmatter-valid")
  ELSE IF ~isAgentFrontmatter(parsed.value)
  THEN ParseFailure(<<"Frontmatter must be a valid YAML object">>,
                    "frontmatter-valid")
  ELSE ParseSuccess(parsed.value, body)

ParseSplit(split, yaml) ==
  IF split.absent
  THEN ParseFailure(
         <<"Agent file must contain YAML frontmatter (content between --- markers)">>,
         "frontmatter-required")
  ELSE ParseLoaded(load(split.frontmatter, yaml), split.body)

\* Variant: a file of exactly the ceiling is rejected too.
parseAgentFileInclusive(f) ==
  IF f.stat = "throws"
  THEN ParseFailure(<<"Failed to read file: ", "stat error">>, NoRule)
  ELSE IF f.size >= MAX_FILE_SIZE_KB * 1024
  THEN ParseFailure(<<"File too large (">> \o ToString(RoundKB(f.size))
                      \o <<"KB). Maximum: ">> \o ToString(MAX_FILE_SIZE_KB)
                      \o <<"KB">>, NoRule)
  ELSE IF f.read = "throws"
  THEN ParseFailure(<<"Failed to read file: ", "read error">>, NoRule)
  ELSE ParseSplit(extractFrontmatter(f.content), f.yaml)

parseAgentFile(f) ==
  IF f.stat = "throws"
  THEN ParseFailure(<<"Failed to read file: ", "stat error">>, NoRule)
  ELSE IF f.size > MAX_FILE_SIZE_KB * 1024
  THEN ParseFailure(<<"File too large (">> \o ToString(RoundKB(f.size))
                      \o <<"KB). Maximum: ">> \o ToString(MAX_FILE_SIZE_KB)
                      \o <<"KB">>, NoRule)
  ELSE IF f.read = "throws"
  THEN ParseFailure(<<"Failed to read file: ", "read error">>, NoRule)
  ELSE ParseSplit(extractFrontmatter(f.content), f.yaml)

(***************************************************************************)
(* File orchestrator                                                       *)
(***************************************************************************)
\* if (checkRefs) validateFileReferences(...)
References(checkRefs, body, existing, acc, ignoreRules, file) ==
  IF checkRefs
  THEN validateFileReferences(body, existing, acc, ignoreRules, file)
  ELSE acc

\* The validator calls of validateAgentFile, in source order.
Validators(data, body, existing, ignoreRules, checkRefs, file) ==
  LET a1 == validateDescription(Get(data, "description"), NoIssues,
                                ignoreRules, file)
      a2 == validateName(Get(data, "name"), a1, ignoreRules, file)
      a3 == validateArgumentHint(Get(data, "argument-hint"), a2, ignoreRules,
                                 file)
      a4 == validateTools(Get(data, "tools"), a3, ignoreRules, file)
      a5 == validateAgents(Get(data, "agents"), a4, ignoreRules, file)
      a6 == validateModel(Get(data, "model"), a5, ignoreRules, file)
      a7 == validateBooleanField(Get(data, "user-invokable"),
                                 "user-invokable-format", a6, ignoreRules, file)
      a8 == validateBooleanField(Get(data, "disable-model-invocation"),
                                 "disable-model-invocation-format", a7,
                                 ignoreRules, file)
      a9 == validateTarget(Get(data, "target"), a8, ignoreRules, file)
      a10 == validateMcpServers(Get(data, "mcp-servers"), a9, ignoreRules, file)
      a11 == validateHandoffs(Get(data, "handoffs"), a10, ignoreRules, file)
      a12 == validateInfer(Get(data, "infer"), a11, ignoreRules, file)
      a13 == validateUnknownFields(data, a12, ignoreRules, file)
  IN References(checkRefs, body, existing,
                validateBody(body, a13, ignoreRules, file), ignoreRules, file)

\* Variant: the parse-failure issue goes through addIssue, so the ignore
\* list and the severity routing apply to it.
FailureResultCollected(path, error) ==
  [file |-> path,
   valid |-> FALSE,
   errors |-> addIssue(IF error.ruleId # NoRule THEN error.ruleId
                       ELSE "frontmatter-required",
                       error.message, NoIssues, inputs.ignoreRules,
                       path).errors,
   warnings |-> <<>>]

\* The parse-failure return: one issue, pushed to errors as it is.
FailureResult(path, error) ==
  [file |-> path,
   valid |-> FALSE,
   errors |-> <<createIssue(IF error.ruleId # NoRule THEN error.ruleId
                            ELSE "frontmatter-required",
                            error.message, path)>>,
   warnings |-> <<>>]

\* Variant: a file with warnings is not valid.
SuccessResultStrict(path, acc) ==
  [file |-> path,
   valid |-> Len(acc.errors) = 0 /\ Len(acc.warnings) = 0,
   errors |-> acc.errors,
   warnings |-> acc.warnings]

SuccessResult(path, acc) ==
  [file |-> path,
   valid |-> Len(acc.errors) = 0,
   errors |-> acc.errors,
   warnings |-> acc.warnings]

FileResult(f, parseResult, options) ==
  IF ~parseResult.success
  THEN FailureResult(f.path, parseResult.error)
  ELSE SuccessResult(f.path,
         Validators(parseResult.data, parseResult.body, f.existing,
                    options.ignoreRules, options.validateReferences, f.path))

validateAgentFile(f, options) == FileResult(f, parseAgentFile(f), options)

(***************************************************************************)
(* Action inputs and path discovery                                        *)
(***************************************************************************)
NonEmpty(r) == Len(r) > 0

\* getInput("ignore-rules").split(",").map(trim).filter(non-empty): `raw`
\* holds the comma-separated segments.
getInputs(raw) ==
  [path |-> IF raw.path = "" THEN "." ELSE raw.path,
   failOnWarning |-> raw.failOnWarning = "true",
   ignoreRules |->
     SelectSeq([i \in 1..Len(raw.ignoreRules) |-> trim(raw.ignoreRules[i])],
               NonEmpty),
   validateReferences |-> raw.validateReferences = "true"]

IsAgentMd(f) == f.ext = ".agent.md"

IsChatmodeMd(f) == f.ext = ".chatmode.md"

\* [...new Set(files)]: the first occurrence of each path.
Dedup(fs) ==
  LET Keep(i) == \A j \in 1..(i - 1) : fs[j].path # fs[i].path
      F[i \in 0..Len(fs)] ==
        IF i = 0 THEN <<>>
        ELSE IF Keep(i) THEN Append(F[i - 1], fs[i]) ELSE F[i - 1]
  IN F[Len(fs)]

PathFailure(message, ruleId) ==
  [success |-> FALSE, files |-> <<>>,
   error |-> [message |-> message, ruleId |-> ruleId]]

resolveAgentPaths(inputPath, disk) ==
  IF disk.kind = "missing"
  THEN PathFailure(<<"Path not found: ", inputPath>>, NoRule)
  ELSE IF disk.kind = "file"
  THEN IF ~IsAgentMd(disk.file)
       THEN PathFailure(<<"File must have .agent.md extension: ", inputPath>>,
                        "file-extension")
       ELSE [success |-> TRUE, files |-> <<disk.file>>,
             error |-> [message |-> <<>>, ruleId |-> NoRule]]
  ELSE IF disk.kind = "dir"
  THEN LET agentFiles == IF disk.agents.exists
                         THEN SelectSeq(disk.agents.list, IsAgentMd)
                         ELSE <<>>
           rootFiles == SelectSeq(disk.root, IsAgentMd)
           chatmodeFiles == IF disk.chatmodes.exists
                            THEN SelectSeq(disk.chatmodes.list, IsChatmodeMd)
                            ELSE <<>>
           found == agentFiles \o rootFiles \o chatmodeFiles
       IN IF Len(found) = 0
          THEN PathFailure(<<"No .agent.md files found in: ", inputPath>>,
                           NoRule)
          ELSE [success |-> TRUE, files |-> Dedup(found),
                error |-> [message |-> <<>>, ruleId |-> NoRule]]
  ELSE PathFailure(<<"Invalid path type: ", inputPath>>, NoRule)

(***************************************************************************)
(* run: one step per loop iteration                                        *)
(***************************************************************************)
NoOutputs ==
  [valid |-> "", errors |-> <<>>, warnings |-> <<>>, filesValidated |-> <<>>,
   failed |-> <<>>]

ResolveFailed(in, pathResult) ==
  /\ ~pathResult.success
  /\ inputs' = in
  /\ outputs' = [valid |-> "false",
                 errors |-> <<[message |-> pathResult.error.message]>>,
                 warnings |-> <<>>,
                 filesValidated |-> <<"0">>,
                 failed |-> pathResult.error.message]

Resolved(in, pathResult) ==
  /\ pathResult.success
  /\ inputs' = in
  /\ files' = pathResult.files

Resolve(in) == resolveAgentPaths(in.path, env.disk)

RunResolveFailed ==
  /\ pc = "start"
  /\ ResolveFailed(getInputs(env.raw), Resolve(getInputs(env.raw)))
  /\ pc' = "done"
  /\ UNCHANGED <<env, files, fileResults, allErrors, allWarnings>>

RunResolved ==
  /\ pc = "start"
  /\ Resolved(getInputs(env.raw), Resolve(getInputs(env.raw)))
  /\ fileResults' = <<>>
  /\ allErrors' = <<>>
  /\ allWarnings' = <<>>
  /\ pc' = "loop"
  /\ UNCHANGED <<env, outputs>>

Collect(result) ==
  /\ fileResults' = Append(fileResults, result)
  /\ allErrors' = allErrors \o result.errors
  /\ allWarnings' = allWarnings \o result.warnings

\* Variant: a file that cannot be stat'ed or read throws out of the loop
\* and ends the run in its catch handler.
RunValidateFileUncaught ==
  /\ pc = "loop"
  /\ Len(fileResults) < Len(files)
  /\ IF \/ files[Len(fileResults) + 1].stat = "throws"
        \/ files[Len(fileResults) + 1].read = "throws"
     THEN /\ pc' = "done"
          /\ outputs' = [outputs EXCEPT !.failed = <<"Unexpected error: ">>]
          /\ UNCHANGED <<fileResults, allErrors, allWarnings>>
     ELSE /\ Collect(validateAgentFile(files[Len(fileResults) + 1],
                       [ignoreRules |-> inputs.ignoreRules,
                        validateReferences |-> inputs.validateReferences]))
          /\ UNCHANGED <<pc, outputs>>
  /\ UNCHANGED <<env, inputs, files>>

RunValidateFile ==
  /\ pc = "loop"
  /\ Len(fileResults) < Len(files)
  /\ Collect(validateAgentFile(files[Len(fileResults) + 1],
               [ignoreRules |-> inputs.ignoreRules,
                validateReferences |-> inputs.validateReferences]))
  /\ UNCHANGED <<pc, env, inputs, files, outputs>>

\* Variant: the fail-on-warning policy is not applied.
isValidErrorsOnly(errs, warns, failOnWarning) == Len(errs) = 0

isValid(errs, warns, failOnWarning) ==
  LET hasErrors == Len(errs) > 0
      hasWarnings == Len(warns) > 0
  IN ~hasErrors /\ (~failOnWarning \/ ~hasWarnings)

RunReport ==
  /\ pc = "loop"
  /\ Len(fileResults) = Len(files)
  /\ LET ok == isValid(allErrors, allWarnings, inputs.failOnWarning)
     IN outputs' =
          [valid |-> IF ok THEN "true" ELSE "false",
           errors |-> allErrors,
           warnings |-> allWarnings,
           filesValidated |-> ToString(Len(fileResults)),
           failed |->
             IF ok THEN <<>>
             ELSE IF Len(allErrors) > 0
             THEN <<"Validation failed with ">> \o ToString(Len(allErrors))
                    \o <<" error(s)">>
             ELSE <<"Validation failed with ">> \o ToString(Len(allWarnings))
                    \o <<" warning(s) (fail-on-warning enabled)">>]
  /\ pc' = "done"
  /\ UNCHANGED <<env, inputs, files, fileResults, allErrors, allWarnings>>

(***************************************************************************)
(* Inputs: documents, files, disks                                         *)
(***************************************************************************)
MaxFiles == 2

MaxFields == 2

Decoded(v) == [throws |-> FALSE, message |-> "", value |-> v]

SyntaxError == [throws |-> TRUE, message |-> "bad indentation", value |-> Undefined]

Header == <<"-", "-", "-", "\n", "H", "\n", "-", "-", "-", "\n">>

PlainBody == <<"#", " ", "T", "\n", "x">>

File(content, yaml) ==
  [path |-> <<"f">>, ext |-> ".agent.md", stat |-> "ok", size |-> 2048,
   read |-> "ok", content |-> content, yaml |-> yaml,
   existing |-> {<<"a.md">>}]

DocFile(doc, body) == File(Header \o body, Decoded(doc))

LongText == Rep("a", DESCRIPTION_MIN_QUALITY)

GoodHandoff == Obj(<<Ent("label", Str(<<"x">>)), Ent("agent", Str(<<"y">>))>>)

\* The values each field takes when documents combine several fields: a
\* well-formed one and malformed ones.
FieldValues(k) ==
  CASE k = "description" -> {Str(LongText), Str(<<"s">>), Num(<<"5">>)}
    [] k = "name" -> {Str(<<"n">>), Num(<<"5">>)}
    [] k = "argument-hint" -> {Bool(TRUE)}
    [] k = "tools" -> {Arr(<<Str(<<"t">>)>>), Arr(<<Num(<<"1">>), Str(<<"t">>)>>)}
    [] k = "agents" -> {Str(<<"*">>), Str(<<"a">>), Arr(<<Null>>)}
    [] k = "model" -> {Str(<<"m">>), Num(<<"5">>), Arr(<<Str(<<"m">>), Null>>)}
    [] k = "user-invokable" -> {Bool(FALSE), Str(<<"yes">>)}
    [] k = "disable-model-invocation" -> {Num(<<"0">>)}
    [] k = "infer" -> {Bool(FALSE), Null}
    [] k = "target" -> {Str(<<"vscode">>), Str(<<"web">>)}
    [] k = "mcp-servers" -> {Arr(<<>>), Obj(<<>>)}
    [] k = "handoffs" -> {Arr(<<GoodHandoff>>), Arr(<<Obj(<<>>)>>), Str(<<"h">>)}
    [] OTHER -> {Num(<<"1">>)}

FieldOrder ==
  <<"description", "name", "argument-hint", "tools", "agents", "model",
    "user-invokable", "disable-model-invocation", "infer", "target",
    "mcp-servers", "handoffs", "foo", "bar">>

\* Entry lists over the keys FieldOrder[i..], at most n of them present.
RECURSIVE DocsFrom(_, _)
DocsFrom(i, n) ==
  IF n = 0 \/ i > Len(FieldOrder) THEN {<<>>}
  ELSE DocsFrom(i + 1, n)
       \cup {<<Ent(FieldOrder[i], v)>> \o d :
               v \in FieldValues(FieldOrder[i]), d \in DocsFrom(i + 1, n - 1)}

DescriptionValues ==
  {Null, Num(<<"1", "2", "3">>), Num(<<"0">>), Bool(FALSE), Arr(<<>>),
   Str(<<>>), Str(<<" ", "\t">>), Str(Rep(" ", DESCRIPTION_MIN_QUALITY)),
   Str(<<"a">>), Str(<<" ", "a", " ">>),
   Str(Rep("a", DESCRIPTION_MIN_QUALITY - 1)),
   Str(<<" ">> \o Rep("a", DESCRIPTION_MIN_QUALITY - 2)),
   Str(<<" ">> \o Rep("a", DESCRIPTION_MIN_QUALITY - 1)),
   Str(LongText), Str(Rep("a", DESCRIPTION_MIN_QUALITY + 1))}

ItemValues == {Num(<<"1">>), Str(<<"a">>), Bool(TRUE), Null}

\* Arrays of at most three items.
ArraysOf(items) ==
  {Arr(<<>>)} \cup {Arr(<<a>>) : a \in items}
  \cup {Arr(<<a, b>>) : a \in items, b \in items}
  \cup {Arr(<<a, b, c>>) : a \in items, b \in items, c \in items}

ToolsValues ==
  {Null, Str(<<"a">>), Num(<<"1">>), Obj(<<>>)} \cup ArraysOf(ItemValues)

ModelValues ==
  {Null, Str(<<"m">>), Str(<<>>), Num(<<"5">>), Bool(FALSE), Obj(<<>>)}
  \cup ArraysOf(ItemValues)

HandoffFieldValues(k) ==
  CASE k \in {"label", "agent"} ->
         {Undefined, Str(<<"x">>), Str(<<>>), Num(<<"5">>), Null}
    [] k = "send" -> {Undefined, Bool(FALSE), Str(<<"yes">>), Null}
    [] OTHER -> {Undefined, Str(<<"m">>), Num(<<"5">>), Null}

\* An object holding the entries whose value is not undefined.
ObjOf(entries) == Obj(SelectSeq(entries, LAMBDA en : en.v.t # "undef"))

HandoffObjects ==
  {ObjOf(<<Ent("label", l), Ent("agent", a), Ent("send", sd), Ent("model", m)>>) :
     l \in HandoffFieldValues("label"), a \in HandoffFieldValues("agent"),
     sd \in {Undefined}, m \in {Undefined}}
  \cup {ObjOf(<<Ent("label", Str(<<"x">>)), Ent("agent", a), Ent("send", sd),
                Ent("model", m)>>) :
          a \in {Undefined, Str(<<"y">>)},
          sd \in HandoffFieldValues("send"), m \in HandoffFieldValues("model")}

HandoffItems1 ==
  {Obj(<<>>), Obj(<<Ent("label", Str(<<"x">>))>>), GoodHandoff,
   Num(<<"1">>), Str(<<"s">>), Null, Bool(TRUE), Arr(<<>>)}

HandoffsValues ==
  {Null, Str(<<"a">>), Obj(<<>>), Arr(<<>>)}
  \cup {Arr(<<h>>) : h \in HandoffObjects \cup HandoffItems1}
  \cup {Arr(<<a, b>>) : a \in HandoffItems1, b \in HandoffItems1}

DetailDocs ==
  DocsFrom(1, MaxFields)
  \cup {<<Ent("description", v)>> : v \in DescriptionValues}
  \cup {<<Ent("description", Str(LongText)), Ent("tools", v)>> : v \in ToolsValues}
  \cup {<<Ent("description", Str(LongText)), Ent("model", v)>> : v \in ModelValues}
  \cup {<<Ent("handoffs", v), Ent("description", Str(LongText))>> :
          v \in HandoffsValues}
  \cup {<<Ent("bar", Null), Ent("foo", Null)>>}
  \cup {<<Ent("zeta", Str(<<"z">>)), Ent("description", Str(LongText)),
           Ent("Description", Null), Ent("name", Num(<<"5">>)),
           Ent("tool", Arr(<<>>))>>}

Bodies ==
  {<<>>, <<" ", "\n", "\t">>, PlainBody,
   <<"x">> \o Rep("\n", BODY_MAX_LINES - 2),
   <<"x">> \o Rep("\n", BODY_MAX_LINES - 1),
   <<"x">> \o Rep("\n", BODY_MAX_LINES),
   Rep("\n", BODY_MAX_LINES - 1) \o <<"x", "\n", "y">>,
   Rep("\n", BODY_MAX_LINES + 1) \o <<" ">>,
   <<"[", "t", "]", "(", "a.md", ")", " ", "[", "]", "(", "b.md", ")">>,
   <<"[", "]", "(", ")", "[", "u", "]", "(", "https://", "h", ")",
     "[", "]", "(", "#", "s", ")", "(", "[", "]", "(", "c", "/", "d", ")">>}

GoodDoc == Obj(<<Ent("description", Str(LongText))>>)

\* Files that fail before or in the parser, or decode to a non-mapping.
StructuralFiles ==
  {[File(Header \o PlainBody, Decoded(GoodDoc)) EXCEPT !.stat = "throws"],
   [File(Header \o PlainBody, Decoded(GoodDoc)) EXCEPT !.read = "throws"],
   [File(Header \o PlainBody, Decoded(GoodDoc)) EXCEPT
      !.size = MAX_FILE_SIZE_KB * 1024 + 1],
   [File(Header \o PlainBody, Decoded(GoodDoc)) EXCEPT
      !.size = MAX_FILE_SIZE_KB * 1024],
   File(PlainBody, Decoded(GoodDoc)),
   File(<<"-", "-", "-", "\n", "H", "\n">>, Decoded(GoodDoc)),
   File(<<"-", "-", "-", "\n", "-", "-", "-", "\n", "x">>, Decoded(GoodDoc)),
   File(<<"\n">> \o Header \o PlainBody, Decoded(GoodDoc)),
   File(<<"-", "-", "-", "\n", "\n", "-", "-", "-", "\n", "x">>,
        Decoded(GoodDoc)),
   File(<<"-", "-", "-", "\r", "\n", "H", "\r", "\n", "-", "-", "-", "\r",
          "\n", "x">>, Decoded(GoodDoc)),
   File(<<"-", "-", "-", "\n", "H", "\n", "-", "-", "-">>, Decoded(GoodDoc)),
   File(<<"-", "-", "-", "\n", "H", "\n", "-", "-", "-", "x", "\n", "-",
          "-", "-", "\n", "y">>, Decoded(GoodDoc)),
   File(Header \o PlainBody, SyntaxError),
   File(Header \o PlainBody, Decoded(Null)),
   File(Header \o PlainBody, Decoded(Str(<<"just text">>))),
   File(Header \o PlainBody, Decoded(Num(<<"4", "2">>))),
   File(Header \o PlainBody, Decoded(Bool(TRUE))),
   File(Header \o PlainBody, Decoded(Arr(<<>>))),
   File(Header \o PlainBody, Decoded(Arr(<<Str(<<"a">>), Str(<<"b">>)>>)))}

DetailFiles ==
  {DocFile(Obj(d), PlainBody) : d \in DetailDocs}
  \cup {DocFile(GoodDoc, b) : b \in Bodies}
  \cup {DocFile(Obj(<<>>), <<>>)}
  \cup StructuralFiles

IgnoreLists ==
  {<<>>,
   << <<"frontmatter-required">>, <<"description-quality">>, <<"tools-format">> >>,
   << <<"frontmatter-valid">>, <<"description-format">>,
      <<"handoff-agent-required">>, <<"unknown-field">>, <<"body-empty">> >>}

\* The files a batch is made of.
RunFiles ==
  {DocFile(GoodDoc, PlainBody),
   DocFile(Obj(<<Ent("description", Str(<<"s">>))>>), PlainBody),
   DocFile(Obj(<<Ent("foo", Num(<<"1">>))>>), <<>>),
   DocFile(GoodDoc, <<"[", "t", "]", "(", "a.md", ")", "\n", "[", "]", "(",
                      "b.md", ")">>),
   File(PlainBody, Decoded(GoodDoc)),
   File(Header \o PlainBody, SyntaxError),
   File(Header \o PlainBody, Decoded(Arr(<<Str(<<"a">>)>>))),
   [File(Header \o PlainBody, Decoded(GoodDoc)) EXCEPT
      !.size = MAX_FILE_SIZE_KB * 1024 + 1],
   [File(Header \o PlainBody, Decoded(GoodDoc)) EXCEPT !.stat = "throws"],
   [File(Header \o PlainBody, Decoded(GoodDoc)) EXCEPT !.read = "throws"],
   [DocFile(GoodDoc, PlainBody) EXCEPT !.ext = ".md"],
   [DocFile(Obj(<<>>), PlainBody) EXCEPT !.ext = ".chatmode.md"]}

RECURSIVE SeqsUpTo(_, _)
SeqsUpTo(S, n) ==
  IF n = 0 THEN {<<>>}
  ELSE SeqsUpTo(S, n - 1)
       \cup {Append(q, x) : q \in {r \in SeqsUpTo(S, n - 1) : Len(r) = n - 1},
                            x \in S}

\* The i-th file of a directory tree gets its own path.
Named(b) == [i \in 1..Len(b) |-> [b[i] EXCEPT !.path = <<"f">> \o ToString(i)]]

\* A directory: legacy files under .github/chatmodes, the first other file
\* under .github/agents, the rest at the root.
DirDisk(b) ==
  LET named == Named(b)
      other == SelectSeq(named, LAMBDA f : ~IsChatmodeMd(f))
      chat == SelectSeq(named, IsChatmodeMd)
  IN [kind |-> "dir",
      file |-> File(<<>>, SyntaxError),
      agents |-> [exists |-> Len(other) > 0,
                  list |-> IF Len(other) > 0 THEN <<Head(other)>> ELSE <<>>],
      root |-> IF Len(other) > 0 THEN Tail(other) ELSE <<>>,
      chatmodes |-> [exists |-> Len(chat) > 0, list |-> chat]]

OtherDisk(kind, f) ==
  [kind |-> kind, file |-> f,
   agents |-> [exists |-> FALSE, list |-> <<>>],
   root |-> <<>>,
   chatmodes |-> [exists |-> FALSE, list |-> <<>>]]

Disks ==
  {DirDisk(b) : b \in SeqsUpTo(RunFiles, MaxFiles)}
  \cup {OtherDisk("file", f) : f \in RunFiles}
  \cup {OtherDisk("missing", File(<<>>, SyntaxError)),
        OtherDisk("other", File(<<>>, SyntaxError))}

\* The segments of the comma-separated ignore-rules input.
RawIgnoreLists ==
  {<< <<>> >>,
   << <<" ", "frontmatter-required">>, <<" ">>, <<"description-quality", " ">> >>,
   << <<"frontmatter-valid">>, <<"description-format">>, <<>>,
      <<"unknown-field">>, <<"body-empty">> >>}

RawInputs ==
  {[path |-> "", failOnWarning |-> w, ignoreRules |-> ig,
    validateReferences |-> r] :
     w \in {"true", "false"}, ig \in RawIgnoreLists, r \in {"true", "false"}}

NoInputs ==
  [path |-> "", failOnWarning |-> FALSE, ignoreRules |-> <<>>,
   validateReferences |-> FALSE]

(***************************************************************************)
(* Specifications                                                          *)
(***************************************************************************)
\* run() over a discovered batch of files.
Init ==
  /\ pc = "start"
  /\ env \in {[rules |-> t, raw |-> r, disk |-> d] :
                t \in RuleTables, r \in RawInputs, d \in Disks}
  /\ inputs = NoInputs
  /\ files = <<>>
  /\ fileResults = <<>>
  /\ allErrors = <<>>
  /\ allWarnings = <<>>
  /\ outputs = NoOutputs

Next == RunResolveFailed \/ RunResolved \/ RunValidateFile \/ RunReport

Spec == Init /\ [][Next]_vars

\* validateAgentFile on one file, with the options given by the caller.
InitFile ==
  /\ pc = "file"
  /\ env \in {[rules |-> t, raw |-> [path |-> "", failOnWarning |-> "",
                                     ignoreRules |-> <<>>,
                                     validateReferences |-> ""],
               disk |-> OtherDisk("file", File(<<>>, SyntaxError))] :
                t \in RuleTables}
  /\ inputs \in {[path |-> "", failOnWarning |-> FALSE, ignoreRules |-> ig,
                  validateReferences |-> r] :
                   ig \in IgnoreLists, r \in BOOLEAN}
  /\ files \in {<<f>> : f \in DetailFiles}
  /\ fileResults = <<>>
  /\ allErrors = <<>>
  /\ allWarnings = <<>>
  /\ outputs = NoOutputs

ValidateFile ==
  /\ pc = "file"
  /\ fileResults' = <<validateAgentFile(files[1],
                        [ignoreRules |-> inputs.ignoreRules,
                         validateReferences |-> inputs.validateReferences])>>
  /\ pc' = "validated"
  /\ UNCHANGED <<env, inputs, files, allErrors, allWarnings, outputs>>

NextFile == ValidateFile

SpecFile == InitFile /\ [][NextFile]_vars

(***************************************************************************)
(* Properties                                                              *)
(***************************************************************************)
Validated == pc = "validated"

TheFile == files[1]

TheResult == fileResults[1]

Issues(r) == r.errors \o r.warnings

CountRule(seq, r) == Cardinality({i \in 1..Len(seq) : seq[i].ruleId = r})

Ignored(r) == includes(inputs.ignoreRules, r)

StructuralRules == {"frontmatter-required", "frontmatter-valid"}

Readable(f) ==
  f.stat = "ok" /\ f.read = "ok" /\ f.size <= MAX_FILE_SIZE_KB * 1024

\* An opening delimiter at the start and a delimiter somewhere after it.
HasDelimiterPair(content) ==
  /\ startsWith(content, Delim)
  /\ \E k \in 4..Len(content) : StartsAt(content, k, Delim)

\* The file cannot be read, is too large, has no header, or its header
\* does not decode to a structured value.
FailsToParse(f) ==
  \/ ~Readable(f)
  \/ ~HasDelimiterPair(f.content)
  \/ ~parseAgentFile(f).success

\* C1: when parsing fails, the result holds exactly one issue, in errors,
\* with a structural ruleId, no warnings and valid = false; without a
\* delimiter pair that issue is "frontmatter-required".
C1_ParseFailureSingleError ==
  Validated =>
    /\ FailsToParse(TheFile) =>
         /\ Len(TheResult.errors) = 1
         /\ TheResult.warnings = <<>>
         /\ TheResult.valid = FALSE
         /\ TheResult.errors[1].ruleId \in StructuralRules
    /\ (Readable(TheFile) /\ ~HasDelimiterPair(TheFile.content)) =>
         /\ Len(Issues(TheResult)) = 1
         /\ TheResult.errors[1].ruleId = "frontmatter-required"

C1_Witness ==
  /\ Validated
  /\ Readable(TheFile)
  /\ ~HasDelimiterPair(TheFile.content)
  /\ Ignored("frontmatter-required")
  /\ Len(TheResult.errors) = 1
  /\ TheResult.errors[1].ruleId = "frontmatter-required"

\* C2: a file result is valid exactly when its errors list is empty,
\* whatever its warnings.
C2_ValidIffNoErrors ==
  Validated => (TheResult.valid <=> Len(TheResult.errors) = 0)

C2_Witness ==
  /\ Validated
  /\ TheResult.valid
  /\ Len(TheResult.warnings) > 0

\* C3: no issue whose ruleId is in the ignore list appears in a file's
\* errors or warnings or in the aggregated lists, structural rules included.
C3_IgnoredRulesNeverReported ==
  /\ \A i \in 1..Len(fileResults) :
       \A j \in 1..Len(Issues(fileResults[i])) :
         ~Ignored(Issues(fileResults[i])[j].ruleId)
  /\ \A j \in 1..Len(allErrors) : ~Ignored(allErrors[j].ruleId)
  /\ \A j \in 1..Len(allWarnings) : ~Ignored(allWarnings[j].ruleId)

Options ==
  [ignoreRules |-> inputs.ignoreRules,
   validateReferences |-> inputs.validateReferences]

Parsed == parseAgentFile(TheFile)

ParsedOk == Validated /\ Parsed.success

Of(seq, ruleIds) == SelectSeq(seq, LAMBDA is : is.ruleId \in ruleIds)

HandoffElementRules ==
  {"handoff-label-required", "handoff-agent-required", "handoff-send-format",
   "handoff-model-format"}

\* The rules each field's validator reports.
FieldRules(k) ==
  CASE k = "description" -> {"description-format", "description-quality"}
    [] k = "name" -> {"name-format"}
    [] k = "argument-hint" -> {"argument-hint-format"}
    [] k = "tools" -> {"tools-format"}
    [] k = "agents" -> {"agents-format"}
    [] k = "model" -> {"model-format"}
    [] k = "user-invokable" -> {"user-invokable-format"}
    [] k = "disable-model-invocation" -> {"disable-model-invocation-format"}
    [] k = "infer" -> {"infer-deprecated"}
    [] k = "target" -> {"target-valid"}
    [] k = "mcp-servers" -> {"mcp-servers-format"}
    [] k = "handoffs" -> {"handoffs-format"} \cup HandoffElementRules

DocumentRules ==
  {"unknown-field", "body-empty", "body-too-long", "reference-not-found"}

\* The document with every entry but the one of key k removed.
OnlyEntry(doc, k) ==
  IF doc.t = "obj" THEN Obj(SelectSeq(doc.e, LAMBDA en : en.k = k))
  ELSE Obj(<<>>)

OnlyField(f, k) == [f EXCEPT !.yaml = Decoded(OnlyEntry(Parsed.data, k))]

\* C4: the issues reported for a field are those reported for a document
\* holding that field alone, whatever the other fields are, and every issue
\* of a parsed file belongs to one field, to the unknown keys or to the body.
C4_FieldsIndependent ==
  ParsedOk =>
    /\ \A k \in KNOWN_FIELDS :
         /\ Of(TheResult.errors, FieldRules(k))
              = Of(validateAgentFile(OnlyField(TheFile, k), Options).errors,
                   FieldRules(k))
         /\ Of(TheResult.warnings, FieldRules(k))
              = Of(validateAgentFile(OnlyField(TheFile, k), Options).warnings,
                   FieldRules(k))
    /\ \A j \in 1..Len(Issues(TheResult)) :
         Issues(TheResult)[j].ruleId
           \in DocumentRules \cup UNION {FieldRules(k) : k \in KNOWN_FIELDS}

C4_Witness ==
  /\ ParsedOk
  /\ Get(Parsed.data, "description") = Str(LongText)
  /\ CountRule(Issues(TheResult), "tools-format") = 1
  /\ CountRule(Issues(TheResult), "description-format") = 0

\* C5: header absent -> "frontmatter-required"; a syntax error or a decoded
\* value that is not a mapping -> "frontmatter-valid"; a mapping -> success
\* with the mapping and the body.
C5_ParserClassification ==
  (Validated /\ Readable(TheFile)) =>
    LET split == extractFrontmatter(TheFile.content)
        decoded == load(split.frontmatter, TheFile.yaml)
    IN /\ split.absent =>
            ~Parsed.success /\ Parsed.error.ruleId = "frontmatter-required"
       /\ (~split.absent /\ decoded.throws) =>
            ~Parsed.success /\ Parsed.error.ruleId = "frontmatter-valid"
       /\ (~split.absent /\ ~decoded.throws /\ decoded.value.t # "obj") =>
            ~Parsed.success /\ Parsed.error.ruleId = "frontmatter-valid"
       /\ (~split.absent /\ ~decoded.throws /\ decoded.value.t = "obj") =>
            /\ Parsed.success
            /\ Parsed.data = decoded.value
            /\ Parsed.body = split.body

Oversize(f) == f.stat = "ok" /\ f.size > MAX_FILE_SIZE_KB * 1024

TooLarge(issue) == startsWith(issue.detail, <<"File too large (">>)

\* The same file with nothing to read behind it.
Unread(f) == [f EXCEPT !.read = "throws", !.content = <<>>, !.yaml = SyntaxError]

\* C6 as stated: the issue reported for an oversize file carries no ruleId
\* of the rule table.
C6_OversizeIssueHasNoRuleId ==
  (Validated /\ Oversize(TheFile)) =>
    \A j \in 1..Len(Issues(TheResult)) : Issues(TheResult)[j].ruleId \notin RuleId

\* C6 amended: an oversize file is rejected without its content being read
\* or parsed and the parser's failure carries no ruleId; the one issue of
\* the file's result carries the fallback ruleId "frontmatter-required" and
\* the "File too large" text as its detail. A file of at most the ceiling
\* is never reported as too large.
C6_OversizeRejectedUnread ==
  (Validated /\ TheFile.stat = "ok") =>
    /\ Oversize(TheFile) =>
         /\ ~Parsed.success
         /\ Parsed.error.ruleId = NoRule
         /\ TheResult = validateAgentFile(Unread(TheFile), Options)
         /\ Len(TheResult.errors) = 1
         /\ TheResult.warnings = <<>>
         /\ TheResult.errors[1].ruleId = "frontmatter-required"
         /\ TooLarge(TheResult.errors[1])
    /\ ~Oversize(TheFile) =>
         \A j \in 1..Len(Issues(TheResult)) : ~TooLarge(Issues(TheResult)[j])

C6_Witness ==
  /\ Validated
  /\ Oversize(TheFile)
  /\ TheFile.read = "ok"
  /\ HasDelimiterPair(TheFile.content)
  /\ TheResult.errors[1].ruleId = "frontmatter-required"

Finished == pc = "done" /\ Len(files) > 0

\* C7: the run is valid iff every file is valid and, with fail-on-warning
\* on, no file has a warning; the per-file flags do not depend on the policy.
C7_RunValidity ==
  Finished =>
    /\ Len(fileResults) = Len(files)
    /\ outputs.valid \in {"true", "false"}
    /\ outputs.valid = "true" <=>
         /\ \A i \in 1..Len(fileResults) : fileResults[i].valid
         /\ inputs.failOnWarning =>
              \A i \in 1..Len(fileResults) : fileResults[i].warnings = <<>>
    /\ \A i \in 1..Len(fileResults) :
         fileResults[i].valid <=> Len(fileResults[i].errors) = 0

C7_Witness ==
  /\ Finished
  /\ inputs.failOnWarning
  /\ Len(fileResults) > 1
  /\ \A i \in 1..Len(fileResults) : fileResults[i].valid
  /\ \E i \in 1..Len(fileResults) : fileResults[i].warnings # <<>>
  /\ outputs.valid = "false"

DigitValue(c) == CHOOSE n \in 0..9 : Digits[n + 1] = c

\* The number a sequence of decimal digits denotes.
RECURSIVE DecimalValue(_)
DecimalValue(d) ==
  IF d = <<>> THEN 0
  ELSE 10 * DecimalValue(SubSeq(d, 1, Len(d) - 1)) + DigitValue(d[Len(d)])

Blank(s) == \A i \in 1..Len(s) : s[i] \in Whitespace

Description == Get(Parsed.data, "description")

\* C8: with nothing ignored, an absent, null, non-string or blank
\* description gives one "description-format" error and nothing else for
\* the field; a non-blank string shorter than 50 gives one
\* "description-quality" warning carrying its length; a longer one nothing.
C8_Description ==
  (ParsedOk /\ inputs.ignoreRules = <<>>) =>
    LET d == Description
        formatErrors == CountRule(TheResult.errors, "description-format")
        formatWarnings == CountRule(TheResult.warnings, "description-format")
        qualityErrors == CountRule(TheResult.errors, "description-quality")
        quality == Of(TheResult.warnings, {"description-quality"})
    IN /\ formatWarnings = 0
       /\ qualityErrors = 0
       /\ (d.t # "str" \/ Blank(d.s)) => (formatErrors = 1 /\ quality = <<>>)
       /\ (d.t = "str" /\ ~Blank(d.s) /\ Len(d.s) < DESCRIPTION_MIN_QUALITY) =>
            /\ formatErrors = 0
            /\ Len(quality) = 1
            /\ DecimalValue(quality[1].detail) = Len(d.s)
       /\ (d.t = "str" /\ ~Blank(d.s) /\ Len(d.s) >= DESCRIPTION_MIN_QUALITY) =>
            (formatErrors = 0 /\ quality = <<>>)

C8_Witness ==
  /\ ParsedOk
  /\ inputs.ignoreRules = <<>>
  /\ Description = Str(<<" ">> \o Rep("a", DESCRIPTION_MIN_QUALITY - 2))
  /\ Of(TheResult.warnings, {"description-quality"}) # <<>>
  /\ Of(TheResult.warnings, {"description-quality"})[1].detail = <<"4", "9">>

Handoffs == Get(Parsed.data, "handoffs")

NonEmptyString(v) == v.t = "str" /\ Len(v.s) > 0

\* The issues of rule r whose detail is the index i.
AtIndex(r, i) ==
  Cardinality({j \in 1..Len(Issues(TheResult)) :
                 /\ Issues(TheResult)[j].ruleId = r
                 /\ DecimalValue(Issues(TheResult)[j].detail) = i})

\* The index named by an "Item at index <i> is not ..." detail.
ItemIndex(detail) == DecimalValue(SubSeq(detail, 2, Len(detail) - 1))

NotObjectAt(i) ==
  Cardinality({j \in 1..Len(Issues(TheResult)) :
                 /\ Issues(TheResult)[j].ruleId = "handoffs-format"
                 /\ Len(Issues(TheResult)[j].detail) >= 3
                 /\ Issues(TheResult)[j].detail[1] = "Item at index "
                 /\ ItemIndex(Issues(TheResult)[j].detail) = i})

\* C9: with no handoff rule ignored, an element of a handoffs array that is
\* not a structured value gives one "handoffs-format" issue for its index
\* and nothing else; a structured one gives "handoff-label-required" iff its
\* label is not a non-empty string and "handoff-agent-required" iff its
\* agent is not a non-empty string.
C9_HandoffElements ==
  (/\ ParsedOk
   /\ Handoffs.t = "arr"
   /\ \A r \in FieldRules("handoffs") : ~Ignored(r)) =>
    \A i \in 0..(Len(Handoffs.e) - 1) :
      LET h == Handoffs.e[i + 1]
      IN IF h.t \notin {"obj", "arr"}
         THEN /\ NotObjectAt(i) = 1
              /\ \A r \in HandoffElementRules : AtIndex(r, i) = 0
         ELSE /\ NotObjectAt(i) = 0
              /\ AtIndex("handoff-label-required", i)
                   = IF NonEmptyString(Get(h, "label")) THEN 0 ELSE 1
              /\ AtIndex("handoff-agent-required", i)
                   = IF NonEmptyString(Get(h, "agent")) THEN 0 ELSE 1

C9_Witness ==
  /\ ParsedOk
  /\ Handoffs = Arr(<<Obj(<<>>), Obj(<<Ent("label", Str(<<"x">>))>>)>>)
  /\ \A r \in FieldRules("handoffs") : ~Ignored(r)
  /\ AtIndex("handoff-label-required", 0) = 1
  /\ AtIndex("handoff-agent-required", 0) = 1
  /\ AtIndex("handoff-label-required", 1) = 0
  /\ AtIndex("handoff-agent-required", 1) = 1
  /\ Len(Of(Issues(TheResult), FieldRules("handoffs"))) = 3

Tools == Get(Parsed.data, "tools")

ToolIssues == Of(Issues(TheResult), {"tools-format"})

\* The zero-based indices of the items of an array that are not strings.
Offending(arr) == {i \in 0..(Len(arr.e) - 1) : arr.e[i + 1].t # "str"}

\* C10: with "tools-format" not ignored, an array of tools gives one
\* "tools-format" issue per item that is not a string, in ascending index
\* order; absent or null tools give none; any other value gives one.
C10_Tools ==
  (ParsedOk /\ ~Ignored("tools-format")) =>
    /\ Tools.t \in {"undef", "null"} => ToolIssues = <<>>
    /\ Tools.t \notin {"undef", "null", "arr"} => Len(ToolIssues) = 1
    /\ Tools.t = "arr" =>
         /\ Len(ToolIssues) = Cardinality(Offending(Tools))
         /\ \A j \in 1..Len(ToolIssues) :
              /\ ItemIndex(ToolIssues[j].detail) \in Offending(Tools)
              /\ Cardinality({x \in Offending(Tools) :
                                x < ItemIndex(ToolIssues[j].detail)}) = j - 1

C10_Witness ==
  /\ ParsedOk
  /\ Tools = Arr(<<Num(<<"1">>), Str(<<"a">>), Bool(TRUE)>>)
  /\ Len(ToolIssues) = 2
  /\ ItemIndex(ToolIssues[1].detail) = 0
  /\ ItemIndex(ToolIssues[2].detail) = 2

Model == Get(Parsed.data, "model")

ModelIssues == Of(Issues(TheResult), {"model-format"})

\* The issues of a list that name the item at index i.
ItemIssuesAt(seq, i) ==
  Cardinality({j \in 1..Len(seq) :
                 /\ Len(seq[j].detail) >= 3
                 /\ seq[j].detail[1] = "Item at index "
                 /\ ItemIndex(seq[j].detail) = i})

\* C11: with "model-format" not ignored, a model that is absent, null, a
\* string or an array of strings (the empty array included) gives no
\* "model-format" issue; an array gives exactly one per item that is not a
\* string, naming its index; any other value gives exactly one.
C11_Model ==
  (ParsedOk /\ ~Ignored("model-format")) =>
    /\ Model.t \in {"undef", "null", "str"} => ModelIssues = <<>>
    /\ Model.t = "arr" =>
         /\ Len(ModelIssues) = Cardinality(Offending(Model))
         /\ \A i \in 0..(Len(Model.e) - 1) :
              ItemIssuesAt(ModelIssues, i)
                = IF i \in Offending(Model) THEN 1 ELSE 0
    /\ Model.t \notin {"undef", "null", "str", "arr"} => Len(ModelIssues) = 1

C11_Witness ==
  /\ ParsedOk
  /\ ~Ignored("model-format")
  /\ Model = Arr(<<Str(<<"a">>), Null, Num(<<"1">>)>>)
  /\ Len(ModelIssues) = 2
  /\ ItemIssuesAt(ModelIssues, 1) = 1
  /\ ItemIssuesAt(ModelIssues, 2) = 1

Keys == ObjectKeys(Parsed.data)

UnknownKey(key) == \A f \in KNOWN_FIELDS : key # <<f>>

\* C12: with an empty ignore list, the "unknown-field" issues of a parsed
\* document are warnings, one for each top-level key outside the known-field
\* set, in key order and naming that key; no known field name is ever named.
C12_UnknownFields ==
  (ParsedOk /\ inputs.ignoreRules = <<>>) =>
    LET unknown == SelectSeq(Keys, UnknownKey)
        reported == Of(TheResult.warnings, {"unknown-field"})
    IN /\ Of(TheResult.errors, {"unknown-field"}) = <<>>
       /\ Len(reported) = Len(unknown)
       /\ \A j \in 1..Len(reported) :
            /\ reported[j].detail = unknown[j]
            /\ reported[j].severity = "warning"
       /\ \A f \in KNOWN_FIELDS :
            \A j \in 1..Len(Issues(TheResult)) :
              Issues(TheResult)[j].ruleId = "unknown-field"
                => Issues(TheResult)[j].detail # <<f>>

C12_Witness ==
  /\ ParsedOk
  /\ inputs.ignoreRules = <<>>
  /\ Len(Keys) = 5
  /\ Keys[2] = <<"description">>
  /\ Len(Of(TheResult.warnings, {"unknown-field"})) = 3
  /\ Of(TheResult.warnings, {"unknown-field"})[2].detail = <<"Description">>

\* Two files that differ at most in their path.
SameContent(f, g) == [f EXCEPT !.path = <<>>] = [g EXCEPT !.path = <<>>]

Unnamed(issues) == [j \in 1..Len(issues) |-> [issues[j] EXCEPT !.file = <<>>]]

Unreadable(f) ==
  f.stat = "throws" \/ (f.size <= MAX_FILE_SIZE_KB * 1024 /\ f.read = "throws")

ReadFailure(issue) == startsWith(issue.detail, <<"Failed to read file: ">>)

\* C14: a file of a batch that cannot be stat'ed or read gets one structural
\* issue as its result and the run goes on: at the end every discovered
\* file has its result, in discovery order, the other files' results are
\* those of their own validation, and files-validated is the number of
\* discovered files.
C14_CollaboratorFailureKeepsBatch ==
  Finished =>
    /\ files = Resolve(inputs).files
    /\ Len(fileResults) = Len(files)
    /\ outputs.filesValidated = ToString(Len(files))
    /\ \A i \in 1..Len(files) :
         /\ fileResults[i].file = files[i].path
         /\ Unreadable(files[i]) =>
              /\ Len(fileResults[i].errors) = 1
              /\ fileResults[i].warnings = <<>>
              /\ ~fileResults[i].valid
              /\ fileResults[i].errors[1].ruleId \in StructuralRules
              /\ ReadFailure(fileResults[i].errors[1])
         /\ ~Unreadable(files[i]) =>
              /\ \A j \in 1..Len(Issues(fileResults[i])) :
                   ~ReadFailure(Issues(fileResults[i])[j])
              /\ fileResults[i]
                   = validateAgentFile(files[i],
                       [ignoreRules |-> inputs.ignoreRules,
                        validateReferences |-> inputs.validateReferences])

C14_Witness ==
  /\ Finished
  /\ Len(files) = 2
  /\ files[1].stat = "throws"
  /\ ReadFailure(fileResults[1].errors[1])
  /\ ~Unreadable(files[2])
  /\ fileResults[2].valid
  /\ outputs.filesValidated = <<"2">>

\* Missing or explicit null.
Absent(v) == v.t \in {"undef", "null"}

\* C15: for an element of a handoffs array that is a structured value, with
\* no handoff rule ignored, "handoff-send-format" is reported for its index
\* iff send is present (neither missing nor null) and not a boolean, and
\* "handoff-model-format" iff model is present and not a string, whatever
\* the label, the agent and the other of the two are.
C15_HandoffSendModel ==
  (/\ ParsedOk
   /\ Handoffs.t = "arr"
   /\ \A r \in FieldRules("handoffs") : ~Ignored(r)) =>
    \A i \in 0..(Len(Handoffs.e) - 1) :
      Handoffs.e[i + 1].t \in {"obj", "arr"} =>
        /\ AtIndex("handoff-send-format", i)
             = IF /\ ~Absent(Get(Handoffs.e[i + 1], "send"))
                  /\ Get(Handoffs.e[i + 1], "send").t # "bool"
               THEN 1 ELSE 0
        /\ AtIndex("handoff-model-format", i)
             = IF /\ ~Absent(Get(Handoffs.e[i + 1], "model"))
                  /\ Get(Handoffs.e[i + 1], "model").t # "str"
               THEN 1 ELSE 0

\* The number of newline-separated segments of a text.
Segments(text) == Len(SelectSeq(text, LAMBDA c : c = "\n")) + 1

\* C16: with the body rules not ignored, an empty or blank body of a parsed
\* file gives exactly one "body-empty" warning and no "body-too-long"; any
\* other body gives no "body-empty", and one "body-too-long" issue carrying
\* the number of segments iff that number exceeds 1000.
C16_Body ==
  (ParsedOk /\ ~Ignored("body-empty") /\ ~Ignored("body-too-long")) =>
    LET tooLong == Of(Issues(TheResult), {"body-too-long"})
    IN /\ Blank(Parsed.body) =>
            /\ CountRule(TheResult.warnings, "body-empty") = 1
            /\ CountRule(TheResult.errors, "body-empty") = 0
            /\ tooLong = <<>>
       /\ ~Blank(Parsed.body) =>
            /\ CountRule(Issues(TheResult), "body-empty") = 0
            /\ Segments(Parsed.body) > 1000 =>
                 /\ Len(tooLong) = 1
                 /\ DecimalValue(tooLong[1].detail) = Segments(Parsed.body)
            /\ Segments(Parsed.body) <= 1000 => tooLong = <<>>

C16_Witness ==
  /\ ParsedOk
  /\ ~Blank(Parsed.body)
  /\ Segments(Parsed.body) = 1001
  /\ Len(Of(Issues(TheResult), {"body-too-long"})) = 1
  /\ Of(Issues(TheResult), {"body-too-long"})[1].detail = <<"1", "0", "0", "1">>

\* A body of exactly 1000 segments is reached and gives no issue.
C16_WitnessCeiling ==
  /\ ParsedOk
  /\ Segments(Parsed.body) = 1000
  /\ ~Blank(Parsed.body)
  /\ Issues(TheResult) = <<>>

\* The result of the same file with nothing ignored.
Unfiltered ==
  validateAgentFile(TheFile, [ignoreRules |-> <<>>,
                              validateReferences |-> inputs.validateReferences])

Kept(issue) == ~Ignored(issue.ruleId)

\* C17: for a file that parses, the errors and warnings under an ignore
\* list are those under the empty list with the issues of the ignored rules
\* removed, the others unchanged and in the same order.
C17_IgnoreListFilters ==
  ParsedOk =>
    /\ TheResult.errors = SelectSeq(Unfiltered.errors, Kept)
    /\ TheResult.warnings = SelectSeq(Unfiltered.warnings, Kept)

C17_Witness ==
  /\ ParsedOk
  /\ Len(inputs.ignoreRules) > 1
  /\ Len(TheResult.errors) > 0
  /\ Len(TheResult.errors) < Len(Unfiltered.errors)
  /\ Len(TheResult.warnings) < Len(Unfiltered.warnings)

\* The errors (warnings) of the first n file results, one after the other.
RECURSIVE ErrorsUpTo(_)
ErrorsUpTo(n) ==
  IF n = 0 THEN <<>> ELSE ErrorsUpTo(n - 1) \o fileResults[n].errors

RECURSIVE WarningsUpTo(_)
WarningsUpTo(n) ==
  IF n = 0 THEN <<>> ELSE WarningsUpTo(n - 1) \o fileResults[n].warnings

AllOfSeverity(issues, severity) ==
  \A j \in 1..Len(issues) :
    /\ issues[j].severity = severity
    /\ issues[j].ruleId \in RuleId
    /\ rules[issues[j].ruleId].severity = severity

\* C18: in every file result, of a file that parsed or not, the errors all
\* have severity "error" and the warnings severity "warning", as the rule
\* table gives it for their ruleId; the run's errors and warnings are the
\* per-file lists one after the other in file order, with the same partition.
C18_SeverityPartition ==
  pc \in {"loop", "done"} =>
    /\ \A i \in 1..Len(fileResults) :
         /\ AllOfSeverity(fileResults[i].errors, "error")
         /\ AllOfSeverity(fileResults[i].warnings, "warning")
    /\ allErrors = ErrorsUpTo(Len(fileResults))
    /\ allWarnings = WarningsUpTo(Len(fileResults))
    /\ AllOfSeverity(allErrors, "error")
    /\ AllOfSeverity(allWarnings, "warning")
    /\ pc = "done" /\ Len(files) > 0 =>
         outputs.errors = allErrors /\ outputs.warnings = allWarnings

C18_Witness ==
  /\ pc = "done"
  /\ Len(fileResults) = 2
  /\ ~parseAgentFile(files[1]).success
  /\ parseAgentFile(files[2]).success
  /\ Len(fileResults[2].errors) > 0
  /\ Len(fileResults[2].warnings) > 0
  /\ Len(allErrors) = 1 + Len(fileResults[2].errors)
  /\ allWarnings = fileResults[2].warnings

\* A rule whose severity the table leaves open is reached as a warning.
C18_WitnessOpenRule ==
  /\ pc = "done"
  /\ \E j \in 1..Len(allWarnings) : allWarnings[j].ruleId = "reference-not-found"
  /\ Len(allErrors) > 0

====
